---- MODULE Spec2Model ----
(***************************************************************************)
(* Model of the search-and-ranking engine and of the history store of the  *)
(* space-explorer backend: SearchService.search with normalize_results     *)
(* and the similarity step, HistoryService.add_search_result_history and   *)
(* SpaceDB's in-memory history list.                                       *)
(*                                                                         *)
(* Python floats are modelled as exact rationals [n, d] in lowest terms    *)
(* with d > 0; the float NaN is the record [n |-> 0, d |-> 0].             *)
(***************************************************************************)
EXTENDS Integers, Sequences, FiniteSets, Bags

VARIABLES
    sources,             \* SpaceDB._sources: the catalog, a list of source dicts
    history,             \* SpaceDB._search_results_history
    nextUuid,            \* the next value uuid.uuid4() hands out
    now,                 \* the wall clock, in half seconds
    call,                \* the last call made on a service, with its arguments
    ret,                 \* how that call ended: returned value or raised exception
    invoked,             \* the collaborators that call touched: "lm", "db"
    text_features,       \* search's local: what the language model returned
    results,             \* search's local `results` as built by the loop (raw scores)
    scaled_results,      \* what normalize_results returned to search
    normalized_results,  \* search's local `normalized_results` after the sort
    inflight,            \* the deletions request threads have begun and not ended
    build                \* SpaceDB.__init__: its inputs, its locals and where it is

vars == <<sources, history, nextUuid, now, call, ret, invoked, text_features,
          results, scaled_results, normalized_results, inflight,
          build>>

----------------------------------------------------------------------------
(* Bounds of the model.                                                    *)

MaxItems == 3
MaxLimit == 2
MaxHistory == 3
MaxUuid == 3
MaxClock == 2
MaxResults == 2
MaxStart == 3
MaxThreads == 1
MaxCacheId == 3
MaxAdders == 2

----------------------------------------------------------------------------
(* Float arithmetic on exact rationals.                                    *)

Abs(x) == IF x < 0 THEN -x ELSE x

RECURSIVE GCD(_, _)
GCD(a, b) == IF b = 0 THEN a ELSE GCD(b, a % b)

NaN == [n |-> 0, d |-> 0]

IsNaN(x) == x.d = 0

\* n / d with d # 0, in lowest terms with a positive denominator
Rat(n, d) ==
    LET g == GCD(Abs(n), Abs(d))
        s == IF d < 0 THEN -1 ELSE 1
    IN  [n |-> s * (n \div g), d |-> s * (d \div g)]

FZero == Rat(0, 1)

FAdd(a, b) == IF IsNaN(a) \/ IsNaN(b) THEN NaN
              ELSE Rat(a.n * b.d + b.n * a.d, a.d * b.d)

FSub(a, b) == IF IsNaN(a) \/ IsNaN(b) THEN NaN
              ELSE Rat(a.n * b.d - b.n * a.d, a.d * b.d)

FMul(a, b) == IF IsNaN(a) \/ IsNaN(b) THEN NaN
              ELSE Rat(a.n * b.n, a.d * b.d)

\* a / b; the code divides only after it has found b == 0 to be false
FDiv(a, b) == IF IsNaN(a) \/ IsNaN(b) THEN NaN
              ELSE Rat(a.n * b.d, a.d * b.n)

\* the float comparisons: every comparison with NaN is false
FLt(a, b) == ~IsNaN(a) /\ ~IsNaN(b) /\ a.n * b.d < b.n * a.d
FLe(a, b) == ~IsNaN(a) /\ ~IsNaN(b) /\ a.n * b.d <= b.n * a.d
FEq(a, b) == ~IsNaN(a) /\ ~IsNaN(b) /\ a = b

\* round(x, 2): to the nearest hundredth, an exact half going to the even one
Round2(x) ==
    IF IsNaN(x) THEN NaN
    ELSE LET num == x.n * 100
             lo  == num \div x.d
             r2  == 2 * (num % x.d)
             h   == IF r2 < x.d THEN lo
                    ELSE IF r2 > x.d THEN lo + 1
                    ELSE IF lo % 2 = 0 THEN lo ELSE lo + 1
         IN  Rat(h, 100)

----------------------------------------------------------------------------
(* constants.py                                                            *)

NORMALIZED_MINIMUM == Rat(2, 10)
NORMALIZED_MAXIMUM == Rat(10, 10)

----------------------------------------------------------------------------
(* Strings: a query is the sequence of its characters.                     *)

\* the characters str.strip() removes: those for which str.isspace() is true.
\* A character TLA+ has no escape for is written as its Python escape.
Whitespace ==
    {"\t", "\n", "\\x0b", "\f", "\r", "\\x1c", "\\x1d", "\\x1e", "\\x1f", " ",
     "\\x85", "\\xa0", "\\u1680", "\\u2000", "\\u2001", "\\u2002", "\\u2003",
     "\\u2004", "\\u2005", "\\u2006", "\\u2007", "\\u2008", "\\u2009", "\\u200a",
     "\\u2028", "\\u2029", "\\u202f", "\\u205f", "\\u3000"}

\* str.strip(): drop the leading and the trailing whitespace
RECURSIVE LStrip(_)
LStrip(s) == IF s # <<>> /\ Head(s) \in Whitespace THEN LStrip(Tail(s)) ELSE s

RECURSIVE RStrip(_)
RStrip(s) == IF s # <<>> /\ s[Len(s)] \in Whitespace
             THEN RStrip(SubSeq(s, 1, Len(s) - 1)) ELSE s

Strip(s) == RStrip(LStrip(s))

\* the check without the strip: `not query`
IsBlank_empty_only(query) == query = <<>>

\* `not query or not query.strip()`
IsBlank(query) == query = <<>> \/ Strip(query) = <<>>

\* the queries: empty, of whitespace of several kinds, and one with text
Queries == { <<>>, <<" ", "\r", "\\x0b", "\\x85", "\\u3000">>, <<" ", "m", "o", "o", "n">> }

----------------------------------------------------------------------------
(* The catalog.  An embedding is None, the zero vector, or a vector of     *)
(* non-zero norm in the plane, which is given by x, its cosine with the    *)
(* first axis e1 in units of 1e-5.                                         *)

ScoreUnits == {-50000, 10000, 10004, 90000}

NoEmbedding == [kind |-> "None", x |-> 0]
ZeroVector == [kind |-> "zero", x |-> 0]
Vector(x) == [kind |-> "vec", x |-> x]

Embeddings == {NoEmbedding, ZeroVector} \cup { Vector(x) : x \in ScoreUnits }

\* what the language model can return for a query: the zero vector, or e1
TextVectors == {"zero", "e1"}

\* the fields of models.Source, in a source dict of SpaceDB
SourceFields == {"id", "name", "type", "launch_date", "description", "image_url", "status"}

\* models.SearchResult(Source) adds confidence
SearchResultFields == SourceFields \cup {"confidence"}

\* the dict process_one_source builds for the idx-th feed item
MakeSource(idx, embedding) ==
    [id |-> idx, name |-> <<"title", idx>>, type |-> "image",
     launch_date |-> "", description |-> "", image_url |-> <<"href", idx>>,
     status |-> "Active", embedding |-> embedding]

\* SpaceDB.__init__: ids are 1..n in feed order
Catalogs ==
    UNION { { [i \in 1..n |-> MakeSource(i, e[i])] : e \in [1..n -> Embeddings] }
            : n \in 0..MaxItems }

\* get_all_sources keeping the embedding
get_all_sources_with_everything(all_sources) == all_sources

\* SpaceDB.get_all_sources: every source without its embedding key
get_all_sources(all_sources) ==
    [i \in 1..Len(all_sources) |->
        [k \in DOMAIN all_sources[i] \ {"embedding"} |-> all_sources[i][k]]]

\* SpaceDB.get_all_sources_with_embedding
get_all_sources_with_embedding == sources

----------------------------------------------------------------------------
(* The similarity step.                                                    *)

\* calculate_image_and_text_similarity: each vector is divided by its own norm,
\* so a vector of zero norm becomes NaN and so does the score; for two vectors
\* of non-zero norm the score is the dot product of the unit vectors
calculate_image_and_text_similarity(image_vec, text_vec) ==
    IF image_vec.kind = "zero" \/ text_vec = "zero" THEN NaN
    ELSE Rat(image_vec.x, 100000)

\* calculate_similarity_for_one_source: the SearchResult of one source, its
\* confidence the score as a percentage rounded to two decimals
calculate_similarity_for_one_source(source_dict, text_vec) ==
    LET score == calculate_image_and_text_similarity(source_dict.embedding, text_vec)
    IN  [id |-> source_dict.id, name |-> source_dict.name, type |-> source_dict.type,
         launch_date |-> source_dict.launch_date, description |-> source_dict.description,
         image_url |-> source_dict.image_url, status |-> source_dict.status,
         confidence |-> Round2(FMul(score, Rat(100, 1)))]

\* the loop of search: the sources whose embedding is None are skipped
RECURSIVE SearchLoop(_, _)
SearchLoop(all_sources, text_vec) ==
    IF all_sources = <<>> THEN <<>>
    ELSE LET n == Len(all_sources)
             source_dict == all_sources[n]
             before == SearchLoop(SubSeq(all_sources, 1, n - 1), text_vec)
         IN  IF source_dict.embedding = NoEmbedding THEN before
             ELSE Append(before, calculate_similarity_for_one_source(source_dict, text_vec))

----------------------------------------------------------------------------
(* normalize_results                                                       *)

\* min(values): the first value, replaced by each later one that is < it
RECURSIVE PyMin(_)
PyMin(values) ==
    IF Len(values) = 1 THEN values[1]
    ELSE LET cur == PyMin(SubSeq(values, 1, Len(values) - 1))
             item == values[Len(values)]
         IN  IF FLt(item, cur) THEN item ELSE cur

\* max(values): the first value, replaced by each later one that is > it
RECURSIVE PyMax(_)
PyMax(values) ==
    IF Len(values) = 1 THEN values[1]
    ELSE LET cur == PyMax(SubSeq(values, 1, Len(values) - 1))
             item == values[Len(values)]
         IN  IF FLt(cur, item) THEN item ELSE cur

\* min() and max() of an empty list raise ValueError
NormalizeRaises(rs) == rs = <<>>

\* normalize_results with the rank-based tie policy: 1.0 less 0.05 per rank,
\* not below 0.1
normalize_results_rank_tie(rs) ==
    LET confidence_values == [i \in 1..Len(rs) |-> rs[i].confidence]
        min_confidence == PyMin(confidence_values)
        max_confidence == PyMax(confidence_values)
        confidence_range == FSub(max_confidence, min_confidence)
    IN  [i \in 1..Len(rs) |->
            [rs[i] EXCEPT !.confidence =
                IF FEq(confidence_range, FZero)
                THEN (IF i <= 19 THEN Rat(21 - i, 20) ELSE Rat(1, 10))
                ELSE FAdd(Rat(2, 10),
                          FMul(Rat(8, 10),
                               FDiv(FSub(rs[i].confidence, min_confidence),
                                    confidence_range)))]]

\* normalize_results dividing by the maximum instead of by the range
normalize_results_by_max(rs) ==
    LET confidence_values == [i \in 1..Len(rs) |-> rs[i].confidence]
        min_confidence == PyMin(confidence_values)
        max_confidence == PyMax(confidence_values)
        confidence_range == FSub(max_confidence, min_confidence)
    IN  [i \in 1..Len(rs) |->
            [rs[i] EXCEPT !.confidence =
                IF FEq(confidence_range, FZero) THEN Rat(6, 10)
                ELSE FAdd(Rat(2, 10),
                          FMul(Rat(8, 10),
                               FDiv(FSub(rs[i].confidence, min_confidence),
                                    max_confidence)))]]

\* the list normalize_results returns for a non-empty list
normalize_results(rs) ==
    LET confidence_values == [i \in 1..Len(rs) |-> rs[i].confidence]
        min_confidence == PyMin(confidence_values)
        max_confidence == PyMax(confidence_values)
        confidence_range == FSub(max_confidence, min_confidence)
    IN  [i \in 1..Len(rs) |->
            [rs[i] EXCEPT !.confidence =
                IF FEq(confidence_range, FZero) THEN Rat(6, 10)
                ELSE FAdd(Rat(2, 10),
                          FMul(Rat(8, 10),
                               FDiv(FSub(rs[i].confidence, min_confidence),
                                    confidence_range)))]]

----------------------------------------------------------------------------
(* list.sort(key=lambda x: x.confidence, reverse=True)                     *)

\* x goes after every element whose key is >= its own: stable, descending
RECURSIVE InsertDesc(_, _)
InsertDesc(sorted, x) ==
    IF sorted = <<>> THEN <<x>>
    ELSE IF FLt(Head(sorted).confidence, x.confidence) THEN <<x>> \o sorted
    ELSE <<Head(sorted)>> \o InsertDesc(Tail(sorted), x)

RECURSIVE StableSortDesc(_)
StableSortDesc(s) ==
    IF s = <<>> THEN <<>>
    ELSE InsertDesc(StableSortDesc(SubSeq(s, 1, Len(s) - 1)), s[Len(s)])

Rearrangements(s) ==
    { [i \in 1..Len(s) |-> s[p[i]]] :
        p \in { q \in [1..Len(s) -> 1..Len(s)] :
                  \A i, j \in 1..Len(s) : q[i] = q[j] => i = j } }

\* The orders the sort can leave the list in.  When every key is NaN, every
\* comparison is false, the keys count as equal and the stable sort moves
\* nothing.  When some keys are NaN and some are not, the comparisons are not
\* a total order and the language fixes only that the result is a permutation
\* of the list.
SortOutcomes(s) ==
    IF \A i \in 1..Len(s) : ~IsNaN(s[i].confidence) THEN {StableSortDesc(s)}
    ELSE IF \A i \in 1..Len(s) : IsNaN(s[i].confidence) THEN {s}
    ELSE Rearrangements(s)

----------------------------------------------------------------------------
(* models.SearchResultHistory and HistoryService.add_search_result_history *)

\* datetime.now(timezone.utc).strftime("%Y-%m-%dT%H:%M:%SZ"): the clock
\* reading, in half seconds, cut to whole seconds
FormatTime(t) == t \div 2

\* `[{"id": result.id, "confidence": result.confidence} for result in final_results]`
ResultsData(final_results) ==
    [i \in 1..Len(final_results) |->
        [id |-> final_results[i].id, confidence |-> final_results[i].confidence]]

\* pydantic builds a SearchResult from a dict only when every required field
\* of the model is a key of the dict
ValidatesAsSearchResult(d) == SearchResultFields \subseteq DOMAIN d

\* SearchResultHistory(...) raises ValidationError unless every element of
\* all_search_results, declared List[SearchResult], validates as a SearchResult
SearchResultHistoryRaises(all_search_results) ==
    \E i \in 1..Len(all_search_results) : ~ValidatesAsSearchResult(all_search_results[i])

\* a SearchResultHistory whose id is the same for every record
NewSearchResultHistory_constant_id(uuid, query, current_time, all_search_results) ==
    [id |-> 1, query |-> query, time_searched |-> current_time,
     all_search_results |-> all_search_results]

\* the SearchResultHistory the service builds; id comes from uuid.uuid4()
NewSearchResultHistory(uuid, query, current_time, all_search_results) ==
    [id |-> uuid, query |-> query, time_searched |-> current_time,
     all_search_results |-> all_search_results]

\* HistoryService.add_search_result_history raises iff the model's constructor does
AddRaises(final_results) == SearchResultHistoryRaises(ResultsData(final_results))

\* SpaceDB.add_search_result_history: append
add_search_result_history(hist, search_result_history) == Append(hist, search_result_history)

\* a deletion that drops, with the item of this id, every item after it
RECURSIVE delete_search_result_history_drop_rest(_, _)
delete_search_result_history_drop_rest(hist, history_id) ==
    IF hist = <<>> THEN <<>>
    ELSE IF Head(hist).id # history_id
         THEN <<Head(hist)>> \o delete_search_result_history_drop_rest(Tail(hist), history_id)
         ELSE <<>>

\* SpaceDB.delete_search_result_history: keep the items with another id
RECURSIVE delete_search_result_history(_, _)
delete_search_result_history(hist, history_id) ==
    IF hist = <<>> THEN <<>>
    ELSE IF Head(hist).id # history_id
         THEN <<Head(hist)>> \o delete_search_result_history(Tail(hist), history_id)
         ELSE delete_search_result_history(Tail(hist), history_id)

----------------------------------------------------------------------------
(* Calls and their outcomes.                                               *)

Call(op, query, limit, final_results, history_id) ==
    [op |-> op, query |-> query, limit |-> limit,
     final_results |-> final_results, history_id |-> history_id]

Return(value) == [status |-> "return", exc |-> "", value |-> value]
Raise(exc) == [status |-> "raise", exc |-> exc, value |-> <<>>]

Min(a, b) == IF a < b THEN a ELSE b

\* tests_utils.generate_search_results: SearchResults with ids 1..count
generate_search_results(count) ==
    [idx \in 1..count |->
        [id |-> idx, name |-> <<"image", idx>>, type |-> "image",
         launch_date |-> "2018-06-25T00:00:00Z", description |-> <<"image", idx>>,
         image_url |-> "http://image.url", status |-> "Active",
         confidence |-> Rat(6, 10)]]

----------------------------------------------------------------------------
(* Request threads.  The handlers are plain functions, which the server    *)
(* runs on the threads of a pool; SpaceDB takes no lock.  A thread in      *)
(* delete_search_result_history is at one of its accesses to the list.     *)

Threads == 1..MaxThreads

\* a thread that is not in delete_search_result_history; found tells whether
\* the comprehension of the thread's deletion dropped an item
Idle == [pc |-> "idle", history_id |-> 0, initial_length |-> 0, kept |-> <<>>,
         found |-> FALSE]

\* no thread is in get_history.  A thread in it has built the responses from
\* the list all_history names and has yet to read its length; live tells
\* whether that list is still the one SpaceDB holds, and length is the
\* length the list had when SpaceDB was given another
NotListing == [pc |-> "idle", start_index |-> 0, limit |-> 0, all_history |-> <<>>,
               live |-> FALSE, length |-> 0]

\* a thread between the clock reading and the append of
\* add_search_result_history holds its arguments and the current_time it has
\* formatted
Adding(query, final_results, current_time) ==
    [query |-> query, final_results |-> final_results, current_time |-> current_time]

\* no deletion, no listing and no addition has begun; asked is the set of the
\* ids deletions were begun for, and adders is the bag of what the threads
\* in add_search_result_history hold
NoneInFlight == [asked |-> {}, deletes |-> [t \in Threads |-> Idle], reader |-> NotListing,
                 adders |-> EmptyBag]

\* the language model object the services and SpaceDB are given: the
\* repository's LanguageModel, which has the attribute model only, or, as in
\* the tests, an object that has processor and model
LanguageModels == {"LanguageModel", "mock_lm"}

\* whether `lm.processor` can be read
HasProcessor(lm) == lm = "mock_lm"

\* SpaceDB.__init__ has returned for this language model
Built(lm) == [pc |-> "built", lm |-> lm]

\* every item passes through process_one_source, which reads lm.processor:
\* a catalog that has an item was built with a language model that has it
CatalogsOf(lm) == IF HasProcessor(lm) THEN Catalogs ELSE { <<>> }

----------------------------------------------------------------------------
(* The state after construction.                                           *)

Init ==
    /\ build \in { Built(lm) : lm \in LanguageModels }
    /\ sources \in CatalogsOf(build.lm)
    /\ history = <<>>
    /\ nextUuid = 1
    /\ now = 0
    /\ call = Call("init", <<>>, 0, <<>>, 0)
    /\ ret = Return(<<>>)
    /\ invoked = {}
    /\ text_features = "none"
    /\ results = <<>>
    /\ scaled_results = <<>>
    /\ normalized_results = <<>>
    /\ inflight = NoneInFlight

----------------------------------------------------------------------------
(* SearchService.search(query, limit).  text_vec is what the language      *)
(* model returns for the query.                                            *)

Search(query, limit, text_vec) ==
    /\ call' = Call("search", query, limit, <<>>, 0)
    /\ IF IsBlank(query)
       THEN /\ ret' = Return(<<>>)
            /\ invoked' = {}
            /\ text_features' = "none"
            /\ results' = <<>>
            /\ scaled_results' = <<>>
            /\ normalized_results' = <<>>
            /\ UNCHANGED <<history, nextUuid, now>>
       ELSE IF ~HasProcessor(build.lm)
       THEN /\ ret' = Raise("AttributeError")
            /\ invoked' = {}
            /\ text_features' = "none"
            /\ results' = <<>>
            /\ scaled_results' = <<>>
            /\ normalized_results' = <<>>
            /\ UNCHANGED <<history, nextUuid, now>>
       ELSE LET rs == SearchLoop(get_all_sources_with_embedding, text_vec)
            IN  /\ invoked' = {"lm", "db"}
                /\ text_features' = text_vec
                /\ results' = rs
                /\ IF NormalizeRaises(rs)
                   THEN /\ ret' = Raise("ValueError")
                        /\ scaled_results' = <<>>
                        /\ normalized_results' = <<>>
                        /\ UNCHANGED <<history, nextUuid, now>>
                   ELSE /\ scaled_results' = normalize_results(rs)
                        /\ normalized_results' \in SortOutcomes(normalize_results(rs))
                        /\ IF AddRaises(normalized_results')
                           THEN /\ ret' = Raise("ValidationError")
                                /\ UNCHANGED <<history, nextUuid, now>>
                           ELSE /\ history' = add_search_result_history(history,
                                        NewSearchResultHistory(nextUuid, query, FormatTime(now),
                                                               ResultsData(normalized_results')))
                                /\ nextUuid' = nextUuid + 1
                                /\ ret' = Return(SubSeq(normalized_results', 1,
                                                        Min(limit, Len(normalized_results'))))
                                /\ UNCHANGED now
    /\ UNCHANGED <<build, sources, inflight>>

(* HistoryService.add_search_result_history(query, final_results), the     *)
(* clock having advanced to t when it is read.                             *)
Add(query, final_results, t) ==
    /\ Len(history) < MaxHistory
    /\ nextUuid <= MaxUuid
    /\ call' = Call("add", query, 0, final_results, 0)
    /\ now' = t
    /\ invoked' = {}
    /\ IF AddRaises(final_results)
       THEN /\ ret' = Raise("ValidationError")
            /\ UNCHANGED <<history, nextUuid>>
       ELSE /\ history' = add_search_result_history(history,
                    NewSearchResultHistory(nextUuid, query, FormatTime(t),
                                           ResultsData(final_results)))
            /\ nextUuid' = nextUuid + 1
            /\ ret' = Return(<<>>)
    /\ UNCHANGED <<build, sources, text_features, results, scaled_results, normalized_results,
                   inflight>>

(* delete_history_item reporting a deletion whatever the store held       *)
Delete_reports_true(history_id) ==
    /\ call' = Call("delete", <<>>, 0, <<>>, history_id)
    /\ history' = delete_search_result_history(history, history_id)
    /\ ret' = Return(TRUE)
    /\ invoked' = {}
    /\ UNCHANGED <<build, sources, nextUuid, now, text_features, results, scaled_results,
                   normalized_results, inflight>>

(* HistoryService.delete_history_item(history_id)                          *)
Delete(history_id) ==
    /\ call' = Call("delete", <<>>, 0, <<>>, history_id)
    /\ history' = delete_search_result_history(history, history_id)
    /\ ret' = Return(Len(history') < Len(history))
    /\ invoked' = {}
    /\ UNCHANGED <<build, sources, nextUuid, now, text_features, results, scaled_results,
                   normalized_results, inflight>>

Next ==
    \/ \E query \in Queries, limit \in 1..MaxLimit, text_vec \in TextVectors :
            Search(query, limit, text_vec)
    \/ \E query \in Queries, count \in 0..MaxResults, t \in now..MaxClock :
            Add(query, generate_search_results(count), t)
    \/ \E history_id \in 1..MaxUuid : Delete(history_id)

Spec == Init /\ [][Next]_vars

\* the searches alone, over every catalog
NextSearch ==
    \E query \in Queries, limit \in 1..MaxLimit, text_vec \in TextVectors :
        Search(query, limit, text_vec)

RankSpec == Init /\ [][NextSearch]_vars

----------------------------------------------------------------------------
(* Properties.                                                             *)

Confidences(rs) == [i \in 1..Len(rs) |-> rs[i].confidence]

AllNumbers(values) == \A i \in 1..Len(values) : ~IsNaN(values[i])

Distinct(values) == { values[i] : i \in 1..Len(values) }

\* a least and a greatest element of a non-empty sequence of numbers
Least(values) ==
    CHOOSE v \in Distinct(values) : \A w \in Distinct(values) : v.n * w.d <= w.n * v.d
Greatest(values) ==
    CHOOSE v \in Distinct(values) : \A w \in Distinct(values) : w.n * v.d <= v.n * w.d

\* 1/5 + 4/5 * (v - lo) / (hi - lo), for lo < hi
Rescaled(v, lo, hi) ==
    FAdd(Rat(1, 5), FMul(Rat(4, 5), FDiv(FSub(v, lo), FSub(hi, lo))))

\* a search that went past the blank-query check has just ended
SearchRan == call.op = "search" /\ text_features # "none"

\* the raw similarity of every source search took into the pool
RawSimilarities ==
    LET embedded == SelectSeq(sources, LAMBDA src : src.embedding # NoEmbedding)
    IN  [i \in 1..Len(embedded) |->
            calculate_image_and_text_similarity(embedded[i].embedding, text_features)]

\* C1 as stated: when the raw similarities of the pool are numbers with at
\* least two distinct values, candidate i gets 0.2 + 0.8 * (s_i - min_s) /
\* (max_s - min_s), so that the least similar gets 0.2 and the most similar 1.0
C1_RawRescaling ==
    (SearchRan /\ results # <<>> /\ AllNumbers(RawSimilarities)
       /\ Cardinality(Distinct(RawSimilarities)) >= 2)
    => \A i \in 1..Len(scaled_results) :
          scaled_results[i].confidence
            = Rescaled(RawSimilarities[i], Least(RawSimilarities), Greatest(RawSimilarities))

\* C1 amended: the rescaling is of the similarities as search hands them to
\* normalize_results, percentages rounded to two decimals.  When these are
\* numbers with at least two distinct values, candidate i gets
\* 0.2 + 0.8 * (r_i - min_r) / (max_r - min_r): the least gets exactly 0.2,
\* the greatest exactly 1.0 and every confidence lies between the two
C1_RoundedRescaling ==
    LET r == Confidences(results)
    IN  (SearchRan /\ results # <<>> /\ AllNumbers(r) /\ Cardinality(Distinct(r)) >= 2)
        => /\ Len(scaled_results) = Len(results)
           /\ \A i \in 1..Len(results) :
                 /\ scaled_results[i].id = results[i].id
                 /\ scaled_results[i].confidence = Rescaled(r[i], Least(r), Greatest(r))
                 /\ r[i] = Least(r) => scaled_results[i].confidence = Rat(1, 5)
                 /\ r[i] = Greatest(r) => scaled_results[i].confidence = Rat(1, 1)
                 /\ FLe(NORMALIZED_MINIMUM, scaled_results[i].confidence)
                 /\ FLe(scaled_results[i].confidence, NORMALIZED_MAXIMUM)
           /\ \E i \in 1..Len(results) : scaled_results[i].confidence = Rat(1, 5)
           /\ \E i \in 1..Len(results) : scaled_results[i].confidence = Rat(1, 1)

\* a pool of three distinct rounded similarities was normalized: one candidate
\* lies strictly between 0.2 and 1.0
C1_Witness ==
    /\ SearchRan
    /\ AllNumbers(Confidences(results))
    /\ Cardinality(Distinct(Confidences(results))) = 3
    /\ \E i \in 1..Len(scaled_results) :
          /\ FLt(Rat(1, 5), scaled_results[i].confidence)
          /\ FLt(scaled_results[i].confidence, Rat(1, 1))

\* C2: every confidence a search of a non-blank query produces, in the list it
\* builds and returns and in the entries of the history records, lies in [0.2, 1.0]
C2_ConfidenceInRange ==
    LET InRange(c) == FLe(NORMALIZED_MINIMUM, c) /\ FLe(c, NORMALIZED_MAXIMUM)
    IN  /\ SearchRan =>
              /\ \A i \in 1..Len(normalized_results) : InRange(normalized_results[i].confidence)
              /\ ret.status = "return" =>
                    \A i \in 1..Len(ret.value) : InRange(ret.value[i].confidence)
        /\ \A h \in 1..Len(history) :
              \A i \in 1..Len(history[h].all_search_results) :
                  InRange(history[h].all_search_results[i].confidence)

\* C3: when every candidate of the pool has the same similarity, a number (one
\* candidate alone included), every candidate gets the flat 0.6, in the list
\* normalize_results returns and in the sorted list
C3_FlatTie ==
    LET r == Confidences(results)
    IN  (SearchRan /\ results # <<>> /\ AllNumbers(r) /\ Cardinality(Distinct(r)) = 1)
        => /\ Len(scaled_results) = Len(results)
           /\ \A i \in 1..Len(scaled_results) : scaled_results[i].confidence = Rat(3, 5)
           /\ \A i \in 1..Len(normalized_results) : normalized_results[i].confidence = Rat(3, 5)

\* a pool of several candidates of one similarity was normalized
C3_Witness ==
    /\ SearchRan
    /\ Len(results) >= 2
    /\ AllNumbers(Confidences(results))
    /\ Cardinality(Distinct(Confidences(results))) = 1
    /\ Cardinality(Distinct(RawSimilarities)) = 1
    /\ \A i \in 1..Len(scaled_results) : scaled_results[i].confidence = Rat(3, 5)

\* C4: the list search builds to return is non-increasing in confidence, and
\* neighbours of equal confidence are in non-decreasing id order
C4_Sorted ==
    SearchRan =>
        \A i \in 1..(Len(normalized_results) - 1) :
            /\ FLe(normalized_results[i + 1].confidence, normalized_results[i].confidence)
            /\ FEq(normalized_results[i + 1].confidence, normalized_results[i].confidence)
                  => normalized_results[i].id <= normalized_results[i + 1].id

\* C5: a search of a non-blank query over n >= 1 embedded candidates (their
\* similarities numbers) returns the first min(limit, n) elements of the
\* normalized and sorted list of all n
C5_ReturnsPrefix ==
    (SearchRan /\ results # <<>> /\ AllNumbers(Confidences(results)))
    => /\ ret.status = "return"
       /\ Len(normalized_results) = Len(results)
       /\ ret.value = SubSeq(normalized_results, 1, Min(call.limit, Len(normalized_results)))

\* a query of whitespace characters only, the empty one included
OnlyWhitespace(query) == \A i \in 1..Len(query) : query[i] \in Whitespace

\* C7: a search of an empty or whitespace-only query returns the empty list,
\* invokes neither the language model nor the catalog and leaves the history
\* (and the rest of the store) as it was
C7_BlankQuery ==
    [][(call'.op = "search" /\ OnlyWhitespace(call'.query))
        => /\ ret' = Return(<<>>)
           /\ invoked' = {}
           /\ history' = history
           /\ nextUuid' = nextUuid
           /\ sources' = sources]_vars

\* a whitespace-only query was searched while the history held a record
C7_Witness ==
    /\ call.op = "search"
    /\ call.query # <<>>
    /\ OnlyWhitespace(call.query)
    /\ ret.status = "return"
    /\ history # <<>>

\* C8: a search of a non-blank query over a catalog without any embedding
\* returns the empty list
C8_NoEmbeddingReturnsEmpty ==
    (SearchRan /\ \A i \in 1..Len(sources) : sources[i].embedding = NoEmbedding)
    => ret = Return(<<>>)

\* C9: add_search_result_history returns normally for any results list and
\* leaves, as the last record of the history, one with the query as submitted
\* and the (id, confidence) pair of every element of the list, in its order
C9_AddStoresAllPairs ==
    call.op = "add"
    => /\ ret.status = "return"
       /\ history # <<>>
       /\ history[Len(history)].query = call.query
       /\ Len(history[Len(history)].all_search_results) = Len(call.final_results)
       /\ \A i \in 1..Len(call.final_results) :
             /\ history[Len(history)].all_search_results[i].id = call.final_results[i].id
             /\ history[Len(history)].all_search_results[i].confidence
                  = call.final_results[i].confidence

\* C10: a search of a non-blank query over at least one embedded candidate
\* (the similarities numbers) appends exactly one record to the history, with the query as submitted and the whole sorted, normalized list
\* as its entries, and returns a prefix of those entries
C10_SearchAddsOneRecord ==
    [][(call'.op = "search" /\ ~OnlyWhitespace(call'.query)
          /\ results' # <<>> /\ AllNumbers(Confidences(results')))
        => /\ Len(history') = Len(history) + 1
           /\ SubSeq(history', 1, Len(history)) = history
           /\ history'[Len(history')].query = call'.query
           /\ history'[Len(history')].all_search_results = ResultsData(normalized_results')
           /\ ret'.status = "return"
           /\ Len(ret'.value) <= Len(normalized_results')
           /\ ret'.value = SubSeq(normalized_results', 1, Len(ret'.value))]_vars

----------------------------------------------------------------------------
(* The scenario of five candidates with the similarities 0.1, 0.9, 0.5,    *)
(* 0.3 and 0.7 in item order.                                              *)

ScenarioEmbeddings == << Vector(10000), Vector(90000), Vector(50000), Vector(30000), Vector(70000) >>

ScenarioSources == [i \in 1..Len(ScenarioEmbeddings) |-> MakeSource(i, ScenarioEmbeddings[i])]

ScenarioInit ==
    /\ sources = ScenarioSources
    /\ history = <<>>
    /\ nextUuid = 1
    /\ now = 0
    /\ call = Call("init", <<>>, 0, <<>>, 0)
    /\ ret = Return(<<>>)
    /\ invoked = {}
    /\ text_features = "none"
    /\ results = <<>>
    /\ scaled_results = <<>>
    /\ normalized_results = <<>>
    /\ inflight = NoneInFlight
    /\ build = Built("mock_lm")

ScenarioSpec == ScenarioInit /\ [][Next]_vars

\* the scenario's search has just ended
ScenarioSearched == sources = ScenarioSources /\ SearchRan /\ text_features = "e1"

\* C6: normalization yields 0.2, 1.0, 0.6, 0.35 and 0.825 in item order, and
\* the search with limit 2 returns the items of similarity 0.9 and 0.7, in
\* that order, with the confidences 1.0 and 0.825.  The formula the claim
\* cites, 0.2 + 0.8 * (s - min) / range, gives 0.4 and 0.8 where the scenario
\* writes 0.35 and 0.825; the statement takes either figure
C6_ScenarioReturns ==
    (ScenarioSearched /\ call.limit = 2)
    => /\ Len(scaled_results) = 5
       /\ [i \in 1..5 |-> scaled_results[i].id] = <<1, 2, 3, 4, 5>>
       /\ scaled_results[1].confidence = Rat(2, 10)
       /\ scaled_results[2].confidence = Rat(10, 10)
       /\ scaled_results[3].confidence = Rat(6, 10)
       /\ scaled_results[4].confidence \in {Rat(35, 100), Rat(4, 10)}
       /\ scaled_results[5].confidence \in {Rat(825, 1000), Rat(8, 10)}
       /\ ret.status = "return"
       /\ Len(ret.value) = 2
       /\ ret.value[1].id = 2 /\ ret.value[1].confidence = Rat(10, 10)
       /\ ret.value[2].id = 5
       /\ ret.value[2].confidence \in {Rat(825, 1000), Rat(8, 10)}

----------------------------------------------------------------------------
(* HistoryService: listing and reconstruction.                             *)

\* SpaceDB.get_all_search_results_history
get_all_search_results_history == history

\* an element of all_search_results that pydantic validated is a SearchResult
\* object; one that holds the keys id and confidence only is a plain dict
IsSearchResultObject(result) == ValidatesAsSearchResult(result)

\* the exception that leaves _reconstruct_search_results, "" when it returns:
\* nothing is raised for an empty results_data (line 107); line 111
\* subscripts every element, `result["id"]`, which is TypeError on a
\* SearchResult object; with dicts only, line 114 reads
\* self.db.get_sources_by_ids, which is not an attribute of SpaceDB
ReconstructFailure(results_data) ==
    IF results_data = <<>> THEN ""
    ELSE IF \E i \in 1..Len(results_data) : IsSearchResultObject(results_data[i])
         THEN "TypeError"
         ELSE "AttributeError"

\* _reconstruct_search_results raises
ReconstructRaises(results_data) == ReconstructFailure(results_data) # ""

\* _reconstruct_search_results, when it returns: `if not results_data: return []`
reconstruct_search_results(results_data) == <<>>

\* s[start:stop] for 0 <= start
PySlice(s, start, stop) == SubSeq(s, start + 1, Min(stop, Len(s)))

\* `all_search_results[:3]`
TopThreeData(search_results_history) ==
    PySlice(search_results_history.all_search_results, 0, 3)

\* create_search_results_history_response, when it returns
create_search_results_history_response(search_results_history) ==
    [id |-> search_results_history.id,
     query |-> search_results_history.query,
     time_searched |-> search_results_history.time_searched,
     top_three_images |-> reconstruct_search_results(TopThreeData(search_results_history))]

\* x goes after every element whose key is >= its own
RECURSIVE InsertByTime(_, _)
InsertByTime(sorted, x) ==
    IF sorted = <<>> THEN <<x>>
    ELSE IF Head(sorted).time_searched < x.time_searched THEN <<x>> \o sorted
    ELSE <<Head(sorted)>> \o InsertByTime(Tail(sorted), x)

\* sorted(all_history_responses, key=lambda x: x.time_searched, reverse=True):
\* descending and stable, equal keys stay in the order of the input
RECURSIVE SortedByTime(_)
SortedByTime(s) ==
    IF s = <<>> THEN <<>>
    ELSE InsertByTime(SortedByTime(SubSeq(s, 1, Len(s) - 1)), s[Len(s)])

\* get_history raises when building a response does
GetHistoryRaises(all_history) ==
    \E i \in 1..Len(all_history) : ReconstructRaises(TopThreeData(all_history[i]))

\* the exception that leaves get_history, "" when it returns: the responses
\* are built in the order of the list (lines 59-60), and the first record
\* whose top three cannot be reconstructed ends the call
RECURSIVE GetHistoryFailure(_)
GetHistoryFailure(all_history) ==
    IF all_history = <<>> THEN ""
    ELSE IF ReconstructRaises(TopThreeData(Head(all_history)))
         THEN ReconstructFailure(TopThreeData(Head(all_history)))
         ELSE GetHistoryFailure(Tail(all_history))

\* get_history with `total` the length of the page
get_history_total_of_page(all_history, start_index, limit) ==
    LET all_history_responses ==
            [i \in 1..Len(all_history) |-> create_search_results_history_response(all_history[i])]
        sorted_history == SortedByTime(all_history_responses)
        items == PySlice(sorted_history, start_index, start_index + limit)
    IN  [items |-> items, total |-> Len(items)]

\* get_history with the window `[start_index:limit]`
get_history_stop_at_limit(all_history, start_index, limit) ==
    LET all_history_responses ==
            [i \in 1..Len(all_history) |-> create_search_results_history_response(all_history[i])]
        total == Len(all_history)
        sorted_history == SortedByTime(all_history_responses)
        items == PySlice(sorted_history, start_index, limit)
    IN  [items |-> items, total |-> total]

\* the HistoryResponse get_history returns
get_history(all_history, start_index, limit) ==
    LET all_history_responses ==
            [i \in 1..Len(all_history) |-> create_search_results_history_response(all_history[i])]
        total == Len(all_history)
        sorted_history == SortedByTime(all_history_responses)
        items == PySlice(sorted_history, start_index, start_index + limit)
    IN  [items |-> items, total |-> total]

\* the position of the first item of the history with this id, 0 when none has it
RECURSIVE FindHistoryItem(_, _, _)
FindHistoryItem(all_history, history_id, i) ==
    IF i > Len(all_history) THEN 0
    ELSE IF all_history[i].id = history_id THEN i
    ELSE FindHistoryItem(all_history, history_id, i + 1)

\* get_history_results answering an unknown id with the empty list
get_history_results_empty_when_absent(all_history, history_id) ==
    LET i == FindHistoryItem(all_history, history_id, 1)
    IN  IF i = 0 THEN Return(<<>>)
        ELSE IF ReconstructRaises(all_history[i].all_search_results)
             THEN Raise(ReconstructFailure(all_history[i].all_search_results))
             ELSE Return(reconstruct_search_results(all_history[i].all_search_results))

\* get_history_results: the results of the first item with the id, ValueError
\* when the loop ends without one
get_history_results(all_history, history_id) ==
    LET i == FindHistoryItem(all_history, history_id, 1)
    IN  IF i = 0 THEN Raise("ValueError")
        ELSE IF ReconstructRaises(all_history[i].all_search_results)
             THEN Raise(ReconstructFailure(all_history[i].all_search_results))
             ELSE Return(reconstruct_search_results(all_history[i].all_search_results))

----------------------------------------------------------------------------
(* The remaining handlers.                                                 *)

(* get_history sorting the list of the store itself                        *)
List_sorting_in_place(start_index, limit) ==
    /\ call' = [op |-> "list", start_index |-> start_index, limit |-> limit]
    /\ ret' = IF GetHistoryRaises(get_all_search_results_history)
              THEN Raise(GetHistoryFailure(get_all_search_results_history))
              ELSE Return(get_history(get_all_search_results_history, start_index, limit))
    /\ history' = SortedByTime(history)
    /\ invoked' = {}
    /\ UNCHANGED <<build, sources, nextUuid, now, text_features, results,
                   scaled_results, normalized_results, inflight>>

(* HistoryService.get_history(start_index, limit)                          *)
List(start_index, limit) ==
    /\ call' = [op |-> "list", start_index |-> start_index, limit |-> limit]
    /\ ret' = IF GetHistoryRaises(get_all_search_results_history)
              THEN Raise(GetHistoryFailure(get_all_search_results_history))
              ELSE Return(get_history(get_all_search_results_history, start_index, limit))
    /\ invoked' = {}
    /\ UNCHANGED <<build, sources, history, nextUuid, now, text_features, results,
                   scaled_results, normalized_results, inflight>>

(* HistoryService.get_history_results(history_id)                          *)
GetFullResults(history_id) ==
    /\ call' = Call("get_history_results", <<>>, 0, <<>>, history_id)
    /\ ret' = get_history_results(get_all_search_results_history, history_id)
    /\ invoked' = {}
    /\ UNCHANGED <<build, sources, history, nextUuid, now, text_features, results,
                   scaled_results, normalized_results, inflight>>

(* SearchController.search_sources(q, limit, skipHistory): the call of     *)
(* search passes save_to_history, a keyword search does not take, and      *)
(* raises TypeError before the body of search runs.                        *)
search_sources(q, limit, skipHistory) ==
    /\ call' = [op |-> "search_sources", query |-> q, limit |-> limit,
                skipHistory |-> skipHistory]
    /\ ret' = IF IsBlank(q) THEN Return(<<>>) ELSE Raise("TypeError")
    /\ invoked' = {}
    /\ UNCHANGED <<build, sources, history, nextUuid, now, text_features, results,
                   scaled_results, normalized_results, inflight>>

\* Source(**source)
Source(source) == [k \in SourceFields |-> source[k]]

(* SourcesController.get_sources(): SourcesService.get_all_sources makes a  *)
(* Source of every dict of SpaceDB.get_all_sources.                        *)
get_sources ==
    /\ call' = [op |-> "get_sources"]
    /\ ret' = Return([i \in 1..Len(sources) |-> Source(get_all_sources(sources)[i])])
    /\ invoked' = {}
    /\ UNCHANGED <<build, sources, history, nextUuid, now, text_features, results,
                   scaled_results, normalized_results, inflight>>

(* HistoryController.get_history(startIndex, limit): the response of the   *)
(* service, or its exception.                                              *)
get_history_handler(startIndex, limit) ==
    /\ call' = [op |-> "get_history", startIndex |-> startIndex, limit |-> limit]
    /\ ret' = IF GetHistoryRaises(get_all_search_results_history)
              THEN Raise(GetHistoryFailure(get_all_search_results_history))
              ELSE Return(get_history(get_all_search_results_history, startIndex, limit))
    /\ invoked' = {}
    /\ UNCHANGED <<build, sources, history, nextUuid, now, text_features, results,
                   scaled_results, normalized_results, inflight>>

\* `raise HTTPException(status_code=status.HTTP_404_NOT_FOUND, ...)`
NotFound == Raise("HTTPException(404)")

\* `Response(status_code=status.HTTP_204_NO_CONTENT)`
NoContent == Return(<<"Response", "204">>)

(* HistoryController.get_history_results(history_id): the ValueError of    *)
(* the service becomes HTTPException(404), any other outcome is passed on. *)
get_history_results_handler(history_id) ==
    /\ call' = [op |-> "get_history_results_handler", history_id |-> history_id]
    /\ LET outcome == get_history_results(get_all_search_results_history, history_id)
       IN  ret' = IF outcome = Raise("ValueError") THEN NotFound ELSE outcome
    /\ invoked' = {}
    /\ UNCHANGED <<build, sources, history, nextUuid, now, text_features, results,
                   scaled_results, normalized_results, inflight>>

(* HistoryController.delete_history_item(history_id): Response(204) when   *)
(* the service reports a deletion, HTTPException(404) when it does not.    *)
delete_history_item_handler(history_id) ==
    /\ call' = [op |-> "delete_history_item", history_id |-> history_id]
    /\ history' = delete_search_result_history(history, history_id)
    /\ ret' = IF Len(history') < Len(history) THEN NoContent ELSE NotFound
    /\ invoked' = {}
    /\ UNCHANGED <<build, sources, nextUuid, now, text_features, results, scaled_results,
                   normalized_results, inflight>>

(* `import app.main`: line 52 calls SourcesController() without the        *)
(* sources_service its __init__ requires, and TypeError leaves the module  *)
(* before a router is included: the application serves no route.           *)
ImportMain ==
    /\ call' = [op |-> "import app.main"]
    /\ ret' = Raise("TypeError")
    /\ invoked' = {}
    /\ UNCHANGED <<build, sources, history, nextUuid, now, text_features, results,
                   scaled_results, normalized_results, inflight>>

\* the handlers of the controllers, called with the services over the
\* five-item catalog, and the import of the application; the records of the
\* store are those HistoryService.add_search_result_history has put there
ApiNext ==
    \/ \E query \in Queries, count \in 0..MaxResults, t \in now..MaxClock :
            Add(query, generate_search_results(count), t)
    \/ get_sources
    \/ \E startIndex \in 0..MaxStart, limit \in 1..MaxLimit :
            get_history_handler(startIndex, limit)
    \/ \E history_id \in 1..MaxUuid : get_history_results_handler(history_id)
    \/ \E history_id \in 1..MaxUuid : delete_history_item_handler(history_id)
    \/ \E q \in Queries, limit \in 1..MaxLimit, skipHistory \in BOOLEAN :
            search_sources(q, limit, skipHistory)
    \/ ImportMain

ApiSpec == ScenarioInit /\ [][ApiNext]_vars

\* the handlers of the history service, and the handler of the controller
\* that maps the service's ValueError
HistoryNext ==
    \/ \E query \in Queries, count \in 0..MaxResults, t \in now..MaxClock :
            Add(query, generate_search_results(count), t)
    \/ \E history_id \in 1..MaxUuid : Delete(history_id)
    \/ \E start_index \in 0..MaxStart, limit \in 1..MaxLimit : List(start_index, limit)
    \/ \E history_id \in 1..MaxUuid : GetFullResults(history_id)
    \/ \E history_id \in 1..MaxUuid : get_history_results_handler(history_id)

HistorySpec == ScenarioInit /\ [][HistoryNext]_vars

----------------------------------------------------------------------------
(* Properties of the API and of the history service.                       *)

Max(a, b) == IF a > b THEN a ELSE b

\* the number of sources search takes into its pool
EmbeddedCount == Len(SelectSeq(sources, LAMBDA src : src.embedding # NoEmbedding))

\* C11: a call of the search API with skipHistory=true and a non-blank query
\* completes, returns the min(limit, n) best of the n ranked results and
\* leaves the history as it was: no record is added
C11_SkipHistorySearch ==
    [][(call'.op = "search_sources" /\ call'.skipHistory /\ ~OnlyWhitespace(call'.query))
        => /\ ret'.status = "return"
           /\ Len(ret'.value) = Min(call'.limit, EmbeddedCount)
           /\ history' = history]_vars

\* the position of the record with this id in the history: its insertion rank
PositionOf(history_id) == FindHistoryItem(history, history_id, 1)

\* a listing has just returned
Listed == call.op = "list" /\ ret.status = "return"

\* C12: the records List returns are in descending time_searched order, and
\* of two records of one time_searched the more recently inserted comes first
C12_NewestFirst ==
    Listed =>
        \A i \in 1..(Len(ret.value.items) - 1) :
            LET a == ret.value.items[i]
                b == ret.value.items[i + 1]
            IN  /\ a.time_searched >= b.time_searched
                /\ a.time_searched = b.time_searched
                      => PositionOf(a.id) > PositionOf(b.id)

\* the summary List makes of a record without resolvable entries
SummaryOf(record) ==
    [id |-> record.id, query |-> record.query, time_searched |-> record.time_searched,
     top_three_images |-> <<>>]

\* the whole listing, as List(0, total) returns it
FullListing == get_history(history, 0, Len(history)).items

\* C13: List(startIndex, limit) with startIndex >= 0 and limit >= 1 returns
\* the records at the positions [startIndex, startIndex + limit) of the sorted
\* sequence of all records (each record once, time_searched descending): the
\* page has min(limit, max(0, total - startIndex)) items, never more than
\* limit, and is empty, not an error, when startIndex >= total
C13_Window ==
    call.op = "list" =>
        LET start == call.start_index
            total == Len(history)
        IN  /\ ret.status = "return"
            /\ Len(FullListing) = total
            /\ \A r \in 1..total : \E k \in 1..total : FullListing[k] = SummaryOf(history[r])
            /\ \A k \in 1..(total - 1) :
                  FullListing[k].time_searched >= FullListing[k + 1].time_searched
            /\ Len(ret.value.items) = Min(call.limit, Max(0, total - start))
            /\ Len(ret.value.items) <= call.limit
            /\ start >= total => ret.value.items = <<>>
            /\ \A k \in 1..Len(ret.value.items) : ret.value.items[k] = FullListing[start + k]

\* three records, not all of one time: List(2, 2) returned exactly the oldest
C13_Witness ==
    /\ Listed
    /\ Len(history) = 3
    /\ call.start_index = 2 /\ call.limit = 2
    /\ Len(ret.value.items) = 1
    /\ \A r \in 1..3 : ret.value.items[1].time_searched <= history[r].time_searched
    /\ \E r \in 1..3 : ret.value.items[1].time_searched < history[r].time_searched

\* C14: the total List returns is the number of records in the history,
\* whatever startIndex and limit
C14_TotalIsCount ==
    call.op = "list" => /\ ret.status = "return"
                        /\ ret.value.total = Len(history)

\* a page shorter than the history was returned, after a deletion
C14_Witness ==
    /\ Listed
    /\ call.start_index > 0
    /\ Len(history) = 2
    /\ nextUuid = 4
    /\ Len(ret.value.items) < ret.value.total
    /\ ret.value.total = 2

\* the (id, confidence) pairs of a list of results
Pairs(rs) == [i \in 1..Len(rs) |-> [id |-> rs[i].id, confidence |-> rs[i].confidence]]

\* the entries whose id is the id of a source of the catalog
Resolvable(entries) ==
    SelectSeq(entries, LAMBDA e : \E i \in 1..Len(sources) : sources[i].id = e.id)

\* C15: every summary of the listing carries its record's id, query and
\* time_searched, and after Add(query, results) the listing has a summary of
\* the new record whose top three are the first three (id, confidence) pairs
\* of results that resolve in the catalog, in their order, three at most
C15_SummaryTopThree ==
    call.op = "add" =>
        /\ ret.status = "return"
        /\ ~GetHistoryRaises(history)
        /\ \A r \in 1..Len(history) :
              \E k \in 1..Len(FullListing) :
                  /\ FullListing[k].id = history[r].id
                  /\ FullListing[k].query = history[r].query
                  /\ FullListing[k].time_searched = history[r].time_searched
                  /\ Len(FullListing[k].top_three_images) <= 3
        /\ \E k \in 1..Len(FullListing) :
              /\ FullListing[k].id = history[Len(history)].id
              /\ FullListing[k].query = call.query
              /\ Pairs(FullListing[k].top_three_images)
                   = Resolvable(PySlice(Pairs(call.final_results), 0, 3))

\* C16: Add(query, results) creates a record for which GetFullResults returns
\* the (id, confidence) pairs of results that resolve in the catalog, in their
\* order, and no later operation changes a record that stays in the store
C16_RoundTrip ==
    [][/\ \A i \in 1..Len(history) : \A j \in 1..Len(history') :
              history'[j].id = history[i].id => history'[j] = history[i]
       /\ call'.op = "add"
            => /\ ret'.status = "return"
               /\ Len(history') = Len(history) + 1
               /\ LET got == get_history_results(history', history'[Len(history')].id)
                  IN  /\ got.status = "return"
                      /\ Pairs(got.value) = Resolvable(Pairs(call'.final_results))]_vars

\* a record of the history carries this id
Present(hist, history_id) == \E i \in 1..Len(hist) : hist[i].id = history_id

\* C17: GetFullResults of an id no record carries raises ValueError, which
\* is no returned list, the empty one included; the handler of the API turns
\* it into the HTTP 404 exception, which is no response either; both leave
\* the history as it was
C17_NotFound ==
    [][/\ (call'.op = "get_history_results" /\ ~Present(history, call'.history_id))
            => /\ ret'.status = "raise"
               /\ ret'.exc = "ValueError"
               /\ history' = history
               /\ nextUuid' = nextUuid
       /\ (call'.op = "get_history_results_handler" /\ ~Present(history, call'.history_id))
            => /\ ret'.status = "raise"
               /\ ret'.exc = "HTTPException(404)"
               /\ history' = history
               /\ nextUuid' = nextUuid
       /\ (call'.op \in {"get_history_results", "get_history_results_handler"}
              /\ Present(history, call'.history_id)
              /\ \A i \in 1..Len(history) : history[i].all_search_results = <<>>)
            => ret' = Return(<<>>)]_vars

\* the handler answered the id of a deleted record with the 404 exception
\* while another record was stored
C17_Witness ==
    /\ call.op = "get_history_results_handler"
    /\ ret = NotFound
    /\ call.history_id < nextUuid
    /\ history # <<>>

\* C18: Delete(id) returns true exactly when a record with the id is in the
\* store before the call and never raises; after it the id is absent, so that
\* GetFullResults(id) raises ValueError and a further Delete(id) removes
\* nothing and returns false, and an id once absent stays absent
C18_DeleteReportsPresence ==
    [][/\ \A id \in 1..MaxUuid :
              (id < nextUuid /\ ~Present(history, id)) => ~Present(history', id)
       /\ call'.op = "delete"
            => /\ ret' = Return(Present(history, call'.history_id))
               /\ ~Present(history', call'.history_id)
               /\ get_history_results(history', call'.history_id) = Raise("ValueError")
               /\ ~(Len(delete_search_result_history(history', call'.history_id))
                      < Len(history'))]_vars

\* the second Delete of an id returned false: the id had been handed out, its
\* record is gone and other records are stored
C18_Witness ==
    /\ call.op = "delete"
    /\ ret = Return(FALSE)
    /\ call.history_id < nextUuid
    /\ ~Present(history, call.history_id)
    /\ history # <<>>

\* C19: Delete(id) removes the record with the id and nothing else: the other
\* records stay, unchanged and in their order, and the size of the store drops
\* by one when the id was present and by zero when it was not
C19_DeleteOnlyThatRecord ==
    [][call'.op = "delete"
        => LET id == call'.history_id
               kept == { i \in 1..Len(history) : history[i].id # id }
           IN  /\ Len(history') = Len(history) - (IF Present(history, id) THEN 1 ELSE 0)
               /\ Len(history') = Cardinality(kept)
               /\ \A i \in kept :
                     history'[Cardinality({ j \in kept : j <= i })] = history[i]]_vars

\* the middle one of three records was deleted
C19_Witness ==
    /\ call.op = "delete"
    /\ ret = Return(TRUE)
    /\ Len(history) = 2
    /\ history[1].id < call.history_id
    /\ call.history_id < history[2].id

----------------------------------------------------------------------------
(* SpaceDB.delete_search_result_history on a request thread, one access to *)
(* the list per step; the other handlers run between the steps.            *)
(* A deletion is asked for an id that was handed out: a client learns ids  *)
(* from listings only.                                                     *)

\* `initial_length = len(self._search_results_history)`
DeleteLen(t, history_id) ==
    /\ inflight.deletes[t].pc = "idle"
    /\ inflight' = [inflight EXCEPT
                        !.asked = inflight.asked \cup {history_id},
                        !.deletes[t] =
                            [pc |-> "filter", history_id |-> history_id,
                             initial_length |-> Len(history), kept |-> <<>>,
                             found |-> FALSE]]
    /\ UNCHANGED <<build, sources, history, nextUuid, now, call, ret, invoked, text_features,
                   results, scaled_results, normalized_results>>

\* `[item for item in self._search_results_history if item.id != history_id]`
DeleteFilter(t) ==
    /\ inflight.deletes[t].pc = "filter"
    /\ inflight' = [inflight EXCEPT !.deletes[t].pc = "store",
                                    !.deletes[t].kept =
                        delete_search_result_history(history, inflight.deletes[t].history_id),
                                    !.deletes[t].found =
                        Present(history, inflight.deletes[t].history_id)]
    /\ UNCHANGED <<build, sources, history, nextUuid, now, call, ret, invoked, text_features,
                   results, scaled_results, normalized_results>>

\* `self._search_results_history = ...`: SpaceDB holds a new list, and the
\* list a thread in get_history took stays as it is from here on
DeleteStore(t) ==
    /\ inflight.deletes[t].pc = "store"
    /\ history' = inflight.deletes[t].kept
    /\ inflight' = [inflight EXCEPT
                        !.deletes[t].pc = "return",
                        !.reader.live = FALSE,
                        !.reader.length = IF inflight.reader.live THEN Len(history) ELSE @]
    /\ UNCHANGED <<build, sources, nextUuid, now, call, ret, invoked, text_features,
                   results, scaled_results, normalized_results>>

\* `deleted = len(self._search_results_history) < initial_length`, returned
\* by the service as it is
DeleteReturn(t) ==
    /\ inflight.deletes[t].pc = "return"
    /\ call' = Call("delete", <<>>, 0, <<>>, inflight.deletes[t].history_id)
    /\ ret' = Return(Len(history) < inflight.deletes[t].initial_length)
    /\ invoked' = {}
    /\ inflight' = [inflight EXCEPT !.deletes[t] = Idle]
    /\ UNCHANGED <<build, sources, history, nextUuid, now, text_features, results,
                   scaled_results, normalized_results>>

\* get_history up to `total = len(all_history)`: the list is taken from
\* SpaceDB and the responses are built from its items
ListRead(start_index, limit) ==
    /\ inflight.reader.pc = "idle"
    /\ IF GetHistoryRaises(get_all_search_results_history)
       THEN /\ call' = [op |-> "list", start_index |-> start_index, limit |-> limit]
            /\ ret' = Raise(GetHistoryFailure(get_all_search_results_history))
            /\ invoked' = {}
            /\ UNCHANGED inflight
       ELSE /\ inflight' = [inflight EXCEPT !.reader =
                                [pc |-> "len", start_index |-> start_index, limit |-> limit,
                                 all_history |-> get_all_search_results_history,
                                 live |-> TRUE, length |-> 0]]
            /\ UNCHANGED <<call, ret, invoked>>
    /\ UNCHANGED <<build, sources, history, nextUuid, now, text_features, results,
                   scaled_results, normalized_results>>

\* get_history from `total = len(all_history)` on: the length is that of the
\* list as it is now, with what was appended to it since the responses were
\* built; the page is cut from the responses
ListReturn ==
    /\ inflight.reader.pc = "len"
    /\ LET reader == inflight.reader
           total == IF reader.live THEN Len(history) ELSE reader.length
       IN  /\ call' = [op |-> "list", start_index |-> reader.start_index,
                       limit |-> reader.limit]
           /\ ret' = Return([get_history(reader.all_history, reader.start_index, reader.limit)
                                EXCEPT !.total = total])
    /\ invoked' = {}
    /\ inflight' = [inflight EXCEPT !.reader = NotListing]
    /\ UNCHANGED <<build, sources, history, nextUuid, now, text_features, results,
                   scaled_results, normalized_results>>

\* add_search_result_history up to the clock reading of line 36, the clock
\* having advanced to t: current_time is fixed here.  Any number of threads
\* may be past this line; the model lets MaxAdders of them be
AddClock(query, final_results, t) ==
    /\ BagCardinality(inflight.adders) < MaxAdders
    /\ Len(history) + BagCardinality(inflight.adders) < MaxHistory
    /\ nextUuid + BagCardinality(inflight.adders) <= MaxUuid
    /\ now' = t
    /\ inflight' = [inflight EXCEPT !.adders =
                        @ (+) SetToBag({Adding(query, final_results, FormatTime(t))})]
    /\ UNCHANGED <<build, sources, history, nextUuid, call, ret, invoked, text_features,
                   results, scaled_results, normalized_results>>

\* add_search_result_history from line 38 on, for one of the threads past
\* the clock reading: the record is built, with the time read before, and
\* appended to the list as it is now
AddAppend ==
    /\ Len(history) < MaxHistory
    /\ nextUuid <= MaxUuid
    /\ \E adder \in BagToSet(inflight.adders) :
          /\ call' = Call("add", adder.query, 0, adder.final_results, 0)
          /\ IF AddRaises(adder.final_results)
             THEN /\ ret' = Raise("ValidationError")
                  /\ UNCHANGED <<history, nextUuid>>
             ELSE /\ history' = add_search_result_history(history,
                          NewSearchResultHistory(nextUuid, adder.query, adder.current_time,
                                                 ResultsData(adder.final_results)))
                  /\ nextUuid' = nextUuid + 1
                  /\ ret' = Return(<<>>)
          /\ inflight' = [inflight EXCEPT !.adders = @ (-) SetToBag({adder})]
    /\ invoked' = {}
    /\ UNCHANGED <<build, sources, now, text_features, results, scaled_results,
                   normalized_results>>

\* the queries of the records added while other threads run: one blank, one not
ConcurrentQueries == { <<>>, <<" ", "m", "o", "o", "n">> }

\* the steps of the threads: the two steps of the additions, an addition
\* running whole when its second step follows its first, with the steps of
\* the deletions and of the listings, which are those of the first page
ConcurrentNext ==
    \/ \E query \in ConcurrentQueries, count \in 0..MaxResults, t \in now..MaxClock :
            AddClock(query, generate_search_results(count), t)
    \/ AddAppend
    \/ \E t \in Threads, history_id \in 1..(nextUuid - 1) : DeleteLen(t, history_id)
    \/ \E t \in Threads : DeleteFilter(t)
    \/ \E t \in Threads : DeleteStore(t)
    \/ \E t \in Threads : DeleteReturn(t)
    \/ \E limit \in 1..MaxLimit : ListRead(0, limit)
    \/ ListReturn
    \/ \E history_id \in 1..MaxUuid : GetFullResults(history_id)

ConcurrentSpec == ScenarioInit /\ [][ConcurrentNext]_vars

\* no deletion is in progress
Quiescent == \A t \in Threads : inflight.deletes[t].pc = "idle"

\* C20: the operations on the history exclude one another, so that what
\* concurrent handlers leave and return is what some serial order of them
\* leaves and returns: a Delete returns true exactly when it removed a record,
\* and once the operations have completed, a record that was added and whose
\* id no Delete was called for is in the store
C20_Serializable ==
    [][/\ \A t \in Threads :
              (inflight.deletes[t].pc = "return" /\ inflight'.deletes[t].pc = "idle")
              => ret' = Return(inflight.deletes[t].found)
       /\ Quiescent' =>
              \A id \in 1..MaxUuid :
                  (id < nextUuid' /\ id \notin inflight'.asked) => Present(history', id)]_vars

----------------------------------------------------------------------------
(* Catalog construction: SpaceDB.__init__ with the embedding cache.        *)
(* A dict of embeddings is given by the set of its keys and the set of     *)
(* those of its keys that hold None; a key outside it holds a vector.      *)

\* pickle.load could not read the file, or there is nothing loaded: None
NoDict == [loaded |-> FALSE, keys |-> {}, nones |-> {}]

Dict(keys, nones) == [loaded |-> TRUE, keys |-> keys, nones |-> nones]

\* `not cached_embeddings`: None, or a dict without keys
Falsy(d) == ~d.loaded \/ d.keys = {}

\* len(d) of a dict
DictLen(d) == Cardinality(d.keys)

\* the vector the cache file holds for an id, and the one the model computes
\* for the image of an item
CachedVector(idx) == Vector(10000)
GeneratedVector(idx) == Vector(90000)

\* d[idx] for a key of a loaded cache
CachedValue(d, idx) == IF idx \in d.nones THEN NoEmbedding ELSE CachedVector(idx)

\* the cache file and the data file as the file system shows them at startup
CacheFiles ==
    { [cache_exists |-> st[1], data_exists |-> st[2], stat_raises |-> st[3],
       cache_mtime |-> cm, data_mtime |-> 1, corrupt |-> c, keys |-> k, nones |-> n] :
        st \in { <<TRUE, TRUE, FALSE>>, <<FALSE, TRUE, FALSE>>,
                 <<TRUE, FALSE, FALSE>>, <<TRUE, TRUE, TRUE>> },
        cm \in 0..MaxClock,
        c \in BOOLEAN,
        k \in SUBSET (1..MaxCacheId),
        n \in SUBSET (1..MaxCacheId) }

\* a corrupt file has no content to tell apart, and None is held by keys only
WellFormedFiles == { f \in CacheFiles : f.nones \subseteq f.keys /\ (f.corrupt => f.keys = {}) }

\* the feed: for each item, whether it has a link with render == "image"
Feeds == UNION { [1..n -> BOOLEAN] : n \in 0..MaxItems }

\* is_cache_valid with the strict comparison cache_mtime > data_mtime
is_cache_valid_strictly_newer(file) ==
    IF ~file.cache_exists THEN FALSE
    ELSE IF ~file.data_exists THEN FALSE
    ELSE IF file.stat_raises THEN FALSE
    ELSE file.cache_mtime > file.data_mtime

\* is_cache_valid
is_cache_valid(file) ==
    IF ~file.cache_exists THEN FALSE
    ELSE IF ~file.data_exists THEN FALSE
    ELSE IF file.stat_raises THEN FALSE
    ELSE file.cache_mtime >= file.data_mtime

\* load_embeddings_cache letting the exception of pickle.load out
load_embeddings_cache_unguarded(file) ==
    IF ~file.cache_exists THEN Return(NoDict)
    ELSE IF file.corrupt THEN Raise("UnpicklingError")
    ELSE Return(Dict(file.keys, file.nones))

\* load_embeddings_cache: None for a missing or unreadable file
load_embeddings_cache(file) ==
    IF ~file.cache_exists THEN Return(NoDict)
    ELSE IF file.corrupt THEN Return(NoDict)
    ELSE Return(Dict(file.keys, file.nones))

\* check_for_cached_embeddings: the outcome of the load when the cache is
\* valid, None otherwise
check_for_cached_embeddings(file) ==
    IF is_cache_valid(file) THEN load_embeddings_cache(file) ELSE Return(NoDict)

\* `cached_embeddings and idx in cached_embeddings`
CacheHit(cached_embeddings, idx) == ~Falsy(cached_embeddings) /\ idx \in cached_embeddings.keys

\* how the download and the decoding of an image end: the image is there,
\* requests.get raises a RequestException, or the body it returns is no
\* image and Image.open raises UnidentifiedImageError (an OSError)
Downloads == {"ok", "RequestException", "UnidentifiedImageError"}

\* get_embedding_from_image_url: requests.get(None) raises MissingSchema, a
\* failed download or decoding raises its exception, and otherwise the model
\* gives the embedding
get_embedding_from_image_url(idx, has_url, download) ==
    IF ~has_url THEN Raise("MissingSchema")
    ELSE IF download # "ok" THEN Raise(download)
    ELSE Return(GeneratedVector(idx))

\* get_image_embedding computing every embedding anew
get_image_embedding_always_computes(cached_embeddings, idx, has_url, download) ==
    [outcome |-> get_embedding_from_image_url(idx, has_url, download), computed |-> TRUE]

\* get_image_embedding: how it ends, and whether it called
\* get_embedding_from_image_url
get_image_embedding(cached_embeddings, idx, has_url, download) ==
    IF CacheHit(cached_embeddings, idx)
    THEN [outcome |-> Return(CachedValue(cached_embeddings, idx)), computed |-> FALSE]
    ELSE [outcome |-> get_embedding_from_image_url(idx, has_url, download),
          computed |-> TRUE]

\* save_embeddings_cache: returns None whether the file was written or not
save_embeddings_cache(embeddings, written) == Return(<<>>)

\* the dict process_one_source returns; image_url is None, here <<>>, without
\* a link
process_one_source(idx, has_url, embedding) ==
    [MakeSource(idx, embedding) EXCEPT !.image_url = IF has_url THEN @ ELSE <<>>]

\* `not cached_embeddings or len(embeddings_to_cache) != len(cached_embeddings)`
SaveCondition(cached_embeddings, embeddings_to_cache) ==
    Falsy(cached_embeddings) \/ Len(embeddings_to_cache) # DictLen(cached_embeddings)

\* SpaceDB.__init__ has been entered with this language model, this feed in
\* the data file and these files
NewBuild(lm, feed, file) ==
    [pc |-> "new", lm |-> lm, feed |-> feed, file |-> file, valid |-> FALSE,
     cached_embeddings |-> NoDict, embeddings_to_cache |-> <<>>,
     generator_calls |-> <<>>, saves |-> <<>>, exc |-> ""]

BuildInit ==
    /\ sources = <<>>
    /\ history = <<>>
    /\ nextUuid = 1
    /\ now = 0
    /\ call = Call("init", <<>>, 0, <<>>, 0)
    /\ ret = Return(<<>>)
    /\ invoked = {}
    /\ text_features = "none"
    /\ results = <<>>
    /\ scaled_results = <<>>
    /\ normalized_results = <<>>
    /\ inflight = NoneInFlight
    /\ build \in { NewBuild(lm, feed, file) :
                      lm \in LanguageModels, feed \in Feeds, file \in WellFormedFiles }

\* `with open(data_path, "r", encoding="utf-8") as f: json_data = json.load(f)`:
\* without the data file, FileNotFoundError leaves __init__
OpenData ==
    /\ build.pc = "new"
    /\ build' = IF build.file.data_exists
                THEN [build EXCEPT !.pc = "opened"]
                ELSE [build EXCEPT !.pc = "raised", !.exc = "FileNotFoundError"]
    /\ UNCHANGED <<sources, history, nextUuid, now, call, ret, invoked, text_features,
                   results, scaled_results, normalized_results, inflight>>

\* `cache_path, cached_embeddings = check_for_cached_embeddings(data_path)`
CheckCache ==
    /\ build.pc = "opened"
    /\ LET loaded == check_for_cached_embeddings(build.file)
       IN  build' = IF loaded.status = "raise"
                    THEN [build EXCEPT !.pc = "raised", !.exc = loaded.exc,
                                       !.valid = is_cache_valid(build.file)]
                    ELSE [build EXCEPT !.pc = "loop",
                                       !.valid = is_cache_valid(build.file),
                                       !.cached_embeddings = loaded.value]
    /\ UNCHANGED <<sources, history, nextUuid, now, call, ret, invoked, text_features,
                   results, scaled_results, normalized_results, inflight>>

\* one pass of the loop over the feed: process_one_source and the append.
\* The arguments of get_image_embedding are evaluated first, self._lm.processor
\* among them: without the attribute, AttributeError leaves __init__ before
\* the cache is looked at; an exception of the embedding step leaves it too
ProcessOne(download) ==
    /\ build.pc = "loop"
    /\ Len(sources) < Len(build.feed)
    /\ LET idx == Len(sources) + 1
           got == get_image_embedding(build.cached_embeddings, idx, build.feed[idx], download)
           calls == IF got.computed THEN Append(build.generator_calls, idx)
                    ELSE build.generator_calls
       IN  IF ~HasProcessor(build.lm)
           THEN /\ build' = [build EXCEPT !.pc = "raised", !.exc = "AttributeError"]
                /\ UNCHANGED sources
           ELSE IF got.outcome.status = "raise"
           THEN /\ build' = [build EXCEPT !.pc = "raised", !.exc = got.outcome.exc,
                                          !.generator_calls = calls]
                /\ UNCHANGED sources
           ELSE /\ build' = [build EXCEPT !.generator_calls = calls,
                                          !.embeddings_to_cache = Append(@, got.outcome.value)]
                /\ sources' = Append(sources,
                                     process_one_source(idx, build.feed[idx], got.outcome.value))
    /\ UNCHANGED <<history, nextUuid, now, call, ret, invoked, text_features,
                   results, scaled_results, normalized_results, inflight>>

\* after the loop: the save, when its condition holds, and the return
Finish(written) ==
    /\ build.pc = "loop"
    /\ Len(sources) = Len(build.feed)
    /\ build' = IF SaveCondition(build.cached_embeddings, build.embeddings_to_cache)
                THEN IF save_embeddings_cache(build.embeddings_to_cache, written).status = "raise"
                     THEN [build EXCEPT !.pc = "raised", !.exc = "OSError"]
                     ELSE [build EXCEPT !.pc = "done",
                                        !.saves = Append(@, [embeddings |-> build.embeddings_to_cache,
                                                             written |-> written])]
                ELSE [build EXCEPT !.pc = "done"]
    /\ UNCHANGED <<sources, history, nextUuid, now, call, ret, invoked, text_features,
                   results, scaled_results, normalized_results, inflight>>

\* SpaceDB.get_all_sources()
GetAll ==
    /\ build.pc = "done"
    /\ call' = Call("get_all_sources", <<>>, 0, <<>>, 0)
    /\ ret' = Return(get_all_sources(sources))
    /\ invoked' = {}
    /\ UNCHANGED <<build, sources, history, nextUuid, now, text_features, results,
                   scaled_results, normalized_results, inflight>>

\* the entry lists reconstruction is tried on: none, the dict of a catalog
\* item, that dict with the dict of no item, and, as a stored
\* SearchResultHistory holds them, the SearchResult objects of
\* generate_search_results, alone and after a dict
ReconstructInputs ==
    { <<>>,
      << [id |-> 1, confidence |-> Rat(6, 10)] >>,
      << [id |-> 1, confidence |-> Rat(6, 10)], [id |-> MaxItems + 1, confidence |-> Rat(2, 10)] >>,
      generate_search_results(1),
      << [id |-> 1, confidence |-> Rat(6, 10)] >> \o generate_search_results(1) }

\* HistoryService._reconstruct_search_results(results_data)
Reconstruct(results_data) ==
    /\ build.pc = "done"
    /\ call' = [op |-> "reconstruct", results_data |-> results_data]
    /\ ret' = IF ReconstructRaises(results_data) THEN Raise(ReconstructFailure(results_data))
              ELSE Return(reconstruct_search_results(results_data))
    /\ invoked' = {}
    /\ UNCHANGED <<build, sources, history, nextUuid, now, text_features, results,
                   scaled_results, normalized_results, inflight>>

BuildNext ==
    \/ OpenData
    \/ CheckCache
    \/ \E download \in Downloads : ProcessOne(download)
    \/ \E written \in BOOLEAN : Finish(written)
    \/ GetAll
    \/ \E results_data \in ReconstructInputs : Reconstruct(results_data)

BuildSpec == BuildInit /\ [][BuildNext]_vars

----------------------------------------------------------------------------
(* Properties of catalog construction and of the embedding cache.          *)

\* the exceptions of the embedding step
EmbeddingFailures == {"MissingSchema", "RequestException", "UnidentifiedImageError"}

\* the exceptions of __init__ that come from neither embedding-cache file:
\* of the embedding step, of opening the data file, of reading lm.processor
OtherFailures == EmbeddingFailures \cup {"FileNotFoundError", "AttributeError"}

\* C21: a failure of the embedding step for an item does not end catalog
\* construction: construction completes with every feed item in the catalog
C21_FailureTolerated ==
    /\ build.pc = "raised" => build.exc \notin EmbeddingFailures
    /\ build.pc = "done" => Len(sources) = Len(build.feed)

\* C22: when construction from a feed of n records has completed, the catalog
\* holds n items with the ids 1..n in feed order; get_all_sources returns the
\* n items in that order, each with the fields of the source but the
\* embedding; and no later operation changes the catalog
C22_CatalogIds ==
    [][/\ build'.pc = "done" =>
              /\ Len(sources') = Len(build'.feed)
              /\ \A i \in 1..Len(sources') : sources'[i].id = i
       /\ build.pc = "done" => sources' = sources
       /\ call'.op = "get_all_sources" =>
              /\ ret'.status = "return"
              /\ Len(ret'.value) = Len(build'.feed)
              /\ \A i \in 1..Len(ret'.value) :
                    /\ ret'.value[i].id = i
                    /\ DOMAIN ret'.value[i] = SourceFields
                    /\ \A k \in SourceFields : ret'.value[i][k] = sources'[i][k]]_vars

\* get_all_sources returned a catalog of MaxItems items, some embeddings of
\* which came from the cache and some from the model
C22_Witness ==
    /\ call.op = "get_all_sources"
    /\ Len(ret.value) = MaxItems
    /\ \E i \in 1..Len(sources) : sources[i].embedding = CachedVector(i)
    /\ \E i \in 1..Len(sources) : sources[i].embedding = GeneratedVector(i)

\* C23: reconstruction looks the ids of the entries up in the catalog and
\* completes: the result has one item for every entry whose id is the id of a
\* catalog item, in order, without the embedding, and no error for the others
C23_GetByIds ==
    call.op = "reconstruct" =>
        /\ ret.status = "return"
        /\ [i \in 1..Len(ret.value) |-> ret.value[i].id]
             = [i \in 1..Len(Resolvable(call.results_data)) |->
                    Resolvable(call.results_data)[i].id]
        /\ \A i \in 1..Len(ret.value) : "embedding" \notin DOMAIN ret.value[i]

\* C24: is_cache_valid is true exactly when the cache file exists and is, by
\* modification time, not older than the data file, a file-system error giving
\* false; and cached embeddings are in use only when it is true
C24_CacheValidity ==
    build.pc \in {"loop", "done", "raised"} =>
        /\ build.valid = (/\ build.file.cache_exists
                          /\ build.file.data_exists
                          /\ ~build.file.stat_raises
                          /\ build.file.cache_mtime >= build.file.data_mtime)
        /\ ~build.valid => build.cached_embeddings = NoDict
        /\ build.cached_embeddings.loaded =>
              /\ build.valid
              /\ build.cached_embeddings = Dict(build.file.keys, build.file.nones)

\* a cache file exactly as old as the data file was taken as valid, and its
\* embeddings were used for the catalog
C24_Witness ==
    /\ build.pc = "done"
    /\ build.file.cache_mtime = build.file.data_mtime
    /\ build.valid
    /\ build.cached_embeddings.loaded
    /\ \E i \in 1..Len(sources) : i \in build.cached_embeddings.keys

\* how many times idx occurs in the sequence s
Occurrences(s, idx) == Cardinality({ i \in 1..Len(s) : s[i] = idx })

\* all embeddings of the catalog, by id
AllEmbeddings == [i \in 1..Len(sources) |-> sources[i].embedding]

\* C25: for the item idx that construction processes, when the loaded cache
\* has an entry for idx the stored embedding is that entry and the embedding
\* generator is not invoked; when there is no cache or no entry for idx the
\* generator is invoked exactly once, and the stored embedding is the vector
\* it returned (get_image_embedding is reached when lm.processor can be read)
C25_GetOrCompute ==
    [][/\ (build.pc = "loop" /\ build'.pc \in {"loop", "raised"}
              /\ HasProcessor(build.lm)) =>
              LET idx == Len(sources) + 1
                  hit == build.cached_embeddings.loaded
                           /\ idx \in build.cached_embeddings.keys
              IN  /\ hit =>
                        /\ build'.generator_calls = build.generator_calls
                        /\ Len(sources') = idx
                        /\ sources'[idx].embedding = CachedValue(build.cached_embeddings, idx)
                  /\ ~hit =>
                        /\ build'.generator_calls = Append(build.generator_calls, idx)
                        /\ build'.pc = "loop" =>
                              /\ Len(sources') = idx
                              /\ sources'[idx].embedding = GeneratedVector(idx)
       /\ build'.pc = "done" =>
              \A idx \in 1..Len(build'.feed) :
                 Occurrences(build'.generator_calls, idx)
                   = IF build'.cached_embeddings.loaded
                          /\ idx \in build'.cached_embeddings.keys THEN 0 ELSE 1]_vars

\* a catalog was built with one embedding taken from the cache and another
\* computed by the generator
C25_Witness ==
    /\ build.pc = "done"
    /\ build.cached_embeddings.loaded
    /\ \E i \in 1..Len(sources) :
          /\ i \in build.cached_embeddings.keys
          /\ sources[i].embedding = CachedVector(i)
          /\ Occurrences(build.generator_calls, i) = 0
    /\ \E i \in 1..Len(sources) :
          /\ i \notin build.cached_embeddings.keys
          /\ sources[i].embedding = GeneratedVector(i)
          /\ Occurrences(build.generator_calls, i) = 1

\* C26: construction calls save_embeddings_cache at most once, only after
\* the last feed item, with the embeddings of all items, and does call it
\* whenever an embedding was computed by the generator
C26_SaveOnce ==
    /\ build.pc \in {"new", "loop", "raised"} => build.saves = <<>>
    /\ build.pc = "done" =>
          /\ Len(build.saves) <= 1
          /\ \A i \in 1..Len(build.saves) : build.saves[i].embeddings = AllEmbeddings
          /\ build.generator_calls # <<>> => Len(build.saves) = 1

\* C27: no failure of reading or writing the embedding cache leaves
\* construction: without a readable cache file there are no cached embeddings
\* and every embedding is computed, a failed write ends construction
\* normally, and an exception that leaves construction is none of the cache
C27_CacheFailuresContained ==
    /\ build.pc = "raised" => build.exc \in OtherFailures
    /\ (build.pc \in {"loop", "done", "raised"}
          /\ (~build.file.cache_exists \/ build.file.corrupt)) =>
          build.cached_embeddings = NoDict
    /\ (build.pc = "done" /\ build.cached_embeddings = NoDict) =>
          build.generator_calls = [i \in 1..Len(build.feed) |-> i]
    /\ \A i \in 1..Len(build.saves) :
          /\ build.pc = "done"
          /\ Len(sources) = Len(build.feed)

\* the cache file could not be deserialized, every embedding was computed,
\* the write of the new cache failed, and construction completed
C27_Witness ==
    /\ build.pc = "done"
    /\ build.file.cache_exists /\ build.file.corrupt /\ build.valid
    /\ Len(sources) >= 2
    /\ build.generator_calls = [i \in 1..Len(sources) |-> i]
    /\ Len(build.saves) = 1
    /\ ~build.saves[1].written

----------------------------------------------------------------------------
(* Zero-norm vectors, record ids, and the read-only handlers.              *)

\* the embedded sources whose similarity with the query vector is a number
NonZeroPool ==
    SelectSeq(sources, LAMBDA src : /\ src.embedding # NoEmbedding
                                    /\ src.embedding # ZeroVector
                                    /\ text_features # "zero")

Ids(rs) == [i \in 1..Len(rs) |-> rs[i].id]

\* C28: a source whose embedding has zero norm, and every source when the
\* query vector has zero norm, is left out of the candidate pool and of the
\* ranked results, and the others are normalized as if it were not there
C28_ZeroNormExcluded ==
    SearchRan =>
        /\ Ids(results) = Ids(NonZeroPool)
        /\ \A i \in 1..Len(normalized_results) :
              \E j \in 1..Len(NonZeroPool) : NonZeroPool[j].id = normalized_results[i].id
        /\ NonZeroPool # <<>> =>
              scaled_results = normalize_results(SearchLoop(NonZeroPool, text_features))

\* the record of hist' is a record of hist, or the one appended last
SameRecords(before, after) ==
    \A j \in 1..Len(after) :
        \/ \E i \in 1..Len(before) : before[i] = after[j]
        \/ j = Len(after) /\ Len(after) = Len(before) + 1

\* C29: in every state reached by Add and Delete no two records of the
\* history have the same id, every record of the history after a step is,
\* unchanged, a record of the history before it or the record just added,
\* and a Delete removes one record at most
C29_UniqueIds ==
    [][/\ \A i, j \in 1..Len(history') :
             history'[i].id = history'[j].id => i = j
       /\ SameRecords(history, history')
       /\ call'.op = "delete" => Len(history') >= Len(history) - 1]_vars

\* a record was deleted from a history of three records, two of which have
\* the same query and differ by their id
C29_Witness ==
    /\ call.op = "delete"
    /\ ret = Return(TRUE)
    /\ Len(history) = 2
    /\ history[1].query = history[2].query
    /\ history[1].id # history[2].id

\* C30: get_history and get_history_results leave the history, its order
\* and its entries, and the catalog as they were, whether they return or
\* raise, and a call that repeats the call before it, nothing having been
\* added or deleted between the two, has the outcome of that call
C30_ReadOnly ==
    [][/\ call'.op \in {"list", "get_history_results"} =>
              /\ history' = history
              /\ sources' = sources
              /\ nextUuid' = nextUuid
       /\ (call.op = "list" /\ call'.op = "list"
             /\ call'.start_index = call.start_index /\ call'.limit = call.limit)
            => ret' = ret
       /\ (call.op = "get_history_results" /\ call'.op = "get_history_results"
             /\ call'.history_id = call.history_id)
            => ret' = ret]_vars

\* a listing returned the newer of two records first while the history
\* holds the older one first
C30_Witness ==
    /\ Listed
    /\ Len(history) >= 2
    /\ Len(ret.value.items) = 2
    /\ ret.value.items[1].id = history[2].id
    /\ ret.value.items[2].id = history[1].id

====
